---- MODULE Spec2Model ----
(***************************************************************************)
(* PredictionVector (pySPACE/resources/data_types/prediction_vector.py):   *)
(* construction and sanitisation (__new__), attribute propagation to       *)
(* derived instances (__array_finalize__), pickling (__reduce__ and        *)
(* __setstate__) and equality (__eq__).                                    *)
(*                                                                         *)
(* A floating point number is a record [k, v]: k = "fin" with the value v, *)
(* k = "inf" with the sign v, or k = "nan".  Finite values are integers,   *)
(* which numpy.float64 represents exactly in the range used here.          *)
(***************************************************************************)
EXTENDS Integers, Sequences, FiniteSets, TLC

\* Longest list / array handed to the constructor.
MaxLen == 2

\* ------------------------------------------------------------------------
\* Values

NaN == [k |-> "nan", v |-> 0]
PosInf == [k |-> "inf", v |-> 1]
NegInf == [k |-> "inf", v |-> -1]
Fin(n) == [k |-> "fin", v |-> n]

\* Python's None, for the opaque attributes label, predictor and tag.
None == "None"

\* 10**9, the magnitude of the sentinel of lines 111 and 114.
Sentinel == 1000000000

\* numpy.allclose defaults: rtol = 1e-5 (1 / RtolInv), atol = 1e-8.
RtolInv == 100000

\* numpy.isfinite on one element.
IsFinite(x) == x.k = "fin"

\* numpy.isfinite(input_array).all()
AllFinite(row) == \A i \in 1..Len(row) : IsFinite(row[i])

\* x > 0 on floats: NaN compares False with everything.
Positive(x) == x.k # "nan" /\ x.v > 0

\* The objects handed around.  A prediction is [type, val]: type is the
\* Python type and val the sequence of its numbers (one number for a scalar).
NoPrediction == [type |-> "None", val |-> << >>]
Scalar(t, x) == [type |-> t, val |-> <<x>>]
\* An array argument is [type, row]: a nested list of one row ("list2d"),
\* a flat list ("list1d"), a 2-d ndarray ("ndarray2d") or None.
NoArray == [type |-> "None", row |-> << >>]
\* The value float() cannot convert (float("abc"), float(object())).
Unconvertible == [k |-> "bad", v |-> 0]

\* numpy storage of an instance: number of dimensions and the one row.
Storage(n, row) == [ndim |-> n, row |-> row]

NoObj == [cls |-> "None", storage |-> Storage(0, << >>), label |-> None,
          predictor |-> None, prediction |-> NoPrediction, tag |-> None]

\* numpy.asarray(x): a bare ndarray has none of the attributes.
BareArray(st) == [cls |-> "ndarray", storage |-> st, label |-> None,
                  predictor |-> None, prediction |-> NoPrediction, tag |-> None]

\* ------------------------------------------------------------------------
\* Input domains

ScalarVals == {NaN, PosInf, NegInf, Fin(0), Fin(1), Fin(-1), Fin(99999), Fin(100000)}
IntVals == {Fin(0), Fin(1), Fin(-1)}
SeqVals == {NaN, PosInf, Fin(1)}
Labels == {None, "Target"}
Predictors == {None, "node"}
Tags == {None, "t1"}

\* The lists and arrays handed in are not empty.
Rows == UNION {[1..n -> SeqVals] : n \in 1..MaxLen}

Predictions ==
    {NoPrediction}
    \cup {Scalar(t, x) : t \in {"float", "float64"}, x \in ScalarVals}
    \cup {Scalar("int", x) : x \in IntVals}
    \cup {Scalar("other", x) : x \in {Fin(1), Unconvertible}}
    \cup {[type |-> "list", val |-> r] : r \in Rows}
    \cup {[type |-> "ndarray", val |-> r] : r \in Rows}

InputArrays ==
    {NoArray}
    \cup {[type |-> "list2d", row |-> r] : r \in Rows}
    \cup {[type |-> "list1d", row |-> r] : r \in Rows}

\* ------------------------------------------------------------------------
\* __new__, lines 81-136

Ok == "ok"
ErrNoPrediction == "TypeError: no prediction and no input array"
ErrFloat == "ValueError: float() cannot convert"
ErrCompare == "TypeError: unorderable types"
ErrAmbiguous == "ValueError: truth value of an array is ambiguous"
ErrNotIterable == "TypeError: object is not iterable"

\* Prepare with the test of line 86 lost: a missing prediction is an error
\* even when input_array is given.
PrepareNeedsPrediction(input_array, prediction) ==
    IF prediction = NoPrediction
    THEN [err |-> ErrNoPrediction, warned |-> FALSE, input_array |-> NoArray,
          prediction |-> prediction]
    ELSE IF input_array # NoArray
    THEN [err |-> Ok, warned |-> FALSE, input_array |-> input_array,
          prediction |-> prediction]
    ELSE IF prediction.type \in {"list", "ndarray"}
    THEN [err |-> Ok, warned |-> FALSE,
          input_array |-> [type |-> IF prediction.type = "list" THEN "list2d"
                                    ELSE "ndarray2d",
                           row |-> prediction.val],
          prediction |-> prediction]
    ELSE IF prediction.val[1] = Unconvertible
    THEN [err |-> ErrFloat, warned |-> TRUE, input_array |-> NoArray,
          prediction |-> prediction]
    ELSE [err |-> Ok, warned |-> prediction.type = "other",
          input_array |-> [type |-> "list2d", row |-> prediction.val],
          prediction |-> Scalar(IF prediction.type = "int" THEN "float"
                                ELSE "float64", prediction.val[1])]

\* Lines 86-106: with no input_array, derive it from prediction (and coerce
\* a scalar prediction to a float).
Prepare(input_array, prediction) ==
    IF input_array # NoArray
    THEN [err |-> Ok, warned |-> FALSE, input_array |-> input_array,
          prediction |-> prediction]
    ELSE IF prediction.type = "list"
    THEN [err |-> Ok, warned |-> FALSE,
          input_array |-> [type |-> "list2d", row |-> prediction.val],
          prediction |-> prediction]
    ELSE IF prediction.type = "ndarray"
    THEN [err |-> Ok, warned |-> FALSE,
          input_array |-> [type |-> "ndarray2d", row |-> prediction.val],
          prediction |-> prediction]
    ELSE IF prediction = NoPrediction
    THEN [err |-> ErrNoPrediction, warned |-> FALSE, input_array |-> NoArray,
          prediction |-> prediction]
    ELSE LET x == prediction.val[1]
             coerced ==
                 IF prediction.type = "float64" THEN prediction
                 ELSE IF prediction.type = "float" THEN Scalar("float64", x)
                 ELSE Scalar("float", x)
             mismatch == prediction.type \notin {"float64", "float", "int"}
         IN  IF mismatch /\ x = Unconvertible
             THEN [err |-> ErrFloat, warned |-> TRUE, input_array |-> NoArray,
                   prediction |-> prediction]
             ELSE [err |-> Ok, warned |-> mismatch,
                   input_array |-> [type |-> "list2d", row |-> <<x>>],
                   prediction |-> coerced]

\* GreaterZero as `not prediction < 0`, which NaN passes.
GreaterZeroNotNegative(prediction, py3) ==
    IF prediction = NoPrediction
    THEN IF py3 THEN ErrCompare ELSE "False"
    ELSE IF prediction.type = "other"
    THEN IF py3 THEN ErrCompare ELSE "True"
    ELSE IF prediction.type = "ndarray" /\ Len(prediction.val) # 1
    THEN ErrAmbiguous
    ELSE IF prediction.val[1].k = "nan" \/ prediction.val[1].v >= 0
    THEN "True" ELSE "False"

\* Line 110, `prediction > 0`: "True", "False" or the exception raised.
\* None and str are ordered against 0 by Python 2 (None below, str above
\* every number) and raise TypeError under Python 3; an ndarray compares
\* elementwise and has a truth value only with one element (the arrays
\* handed in are not empty).
GreaterZero(prediction, py3) ==
    IF prediction = NoPrediction
    THEN IF py3 THEN ErrCompare ELSE "False"
    ELSE IF prediction.type = "other"
    THEN IF py3 THEN ErrCompare ELSE "True"
    ELSE IF prediction.type = "ndarray" /\ Len(prediction.val) # 1
    THEN ErrAmbiguous
    ELSE IF Positive(prediction.val[1]) THEN "True" ELSE "False"

\* The scalar branch of the sanitisation, shared by the variants below.
SentinelBranch(input_array, prediction, py3) ==
    LET gt == GreaterZero(prediction, py3)
    IN  IF gt \in {"True", "False"}
        THEN LET v == IF gt = "True" THEN Sentinel ELSE -Sentinel
             IN  [err |-> Ok,
                  input_array |-> [type |-> "list2d", row |-> <<Fin(v)>>],
                  prediction |-> Scalar("int", Fin(v))]
        ELSE [err |-> gt, input_array |-> input_array, prediction |-> prediction]

\* Sanitize that leaves the array of a list prediction as it is.
SanitizeKeepsList(input_array, prediction, py3) ==
    IF AllFinite(input_array.row) \/ prediction.type = "list"
    THEN [err |-> Ok, input_array |-> input_array, prediction |-> prediction]
    ELSE SentinelBranch(input_array, prediction, py3)

\* Sanitize that zeroes only the non-finite entries of a list prediction.
SanitizeZeroesNonFinite(input_array, prediction, py3) ==
    IF AllFinite(input_array.row)
    THEN [err |-> Ok, input_array |-> input_array, prediction |-> prediction]
    ELSE IF prediction.type = "list"
    THEN [err |-> Ok,
          input_array |->
              [type |-> "list1d",
               row |-> [i \in 1..Len(prediction.val) |->
                            IF IsFinite(prediction.val[i])
                            THEN prediction.val[i] ELSE Fin(0)]],
          prediction |-> prediction]
    ELSE SentinelBranch(input_array, prediction, py3)

\* Sanitize that replaces a list prediction together with its array.
SanitizeZeroesPrediction(input_array, prediction, py3) ==
    IF AllFinite(input_array.row)
    THEN [err |-> Ok, input_array |-> input_array, prediction |-> prediction]
    ELSE IF prediction.type = "list"
    THEN LET zeros == [i \in 1..Len(prediction.val) |-> Fin(0)]
         IN  [err |-> Ok, input_array |-> [type |-> "list1d", row |-> zeros],
              prediction |-> [type |-> "list", val |-> zeros]]
    ELSE SentinelBranch(input_array, prediction, py3)

\* Lines 107-115: replace a non-finite input_array.
Sanitize(input_array, prediction, py3) ==
    IF AllFinite(input_array.row)
    THEN [err |-> Ok, input_array |-> input_array, prediction |-> prediction]
    ELSE IF prediction.type = "list"
    THEN [err |-> Ok,
          input_array |-> [type |-> "list1d",
                           row |-> [i \in 1..Len(prediction.val) |-> Fin(0)]],
          prediction |-> prediction]
    ELSE LET gt == GreaterZero(prediction, py3)
         IN  IF gt = "True"
             THEN [err |-> Ok,
                   input_array |-> [type |-> "list2d", row |-> <<Fin(Sentinel)>>],
                   prediction |-> Scalar("int", Fin(Sentinel))]
             ELSE IF gt = "False"
             THEN [err |-> Ok,
                   input_array |-> [type |-> "list2d", row |-> <<Fin(-Sentinel)>>],
                   prediction |-> Scalar("int", Fin(-Sentinel))]
             ELSE [err |-> gt, input_array |-> input_array,
                   prediction |-> prediction]

\* base.BaseData.__new__ (line 117): numpy.atleast_2d(input_array) viewed as
\* the subtype; a flat list becomes the one row of a 2-d array.
BaseDataNew(input_array) == Storage(2, input_array.row)

\* base.BaseData.__array_finalize__ (line 139): the tag travels with the
\* other BaseData attributes of a source that is not a bare ndarray.
BaseDataFinalize(obj) ==
    IF obj.cls \notin {"None", "ndarray"} THEN obj.tag ELSE None

\* ArrayFinalize that forgets to copy the predictor and the prediction.
ArrayFinalizeLabelOnly(st, obj) ==
    [cls |-> "PredictionVector", storage |-> st,
     label |-> IF obj.cls \notin {"None", "ndarray"} THEN obj.label ELSE None,
     predictor |-> None, prediction |-> NoPrediction,
     tag |-> BaseDataFinalize(obj)]

\* Lines 138-150, __array_finalize__(self, obj): the instance numpy made over
\* the storage st, with the attributes taken from obj.
ArrayFinalize(st, obj) ==
    IF obj.cls # "None" /\ obj.cls # "ndarray"
    THEN [cls |-> "PredictionVector", storage |-> st, label |-> obj.label,
          predictor |-> obj.predictor, prediction |-> obj.prediction,
          tag |-> BaseDataFinalize(obj)]
    ELSE [cls |-> "PredictionVector", storage |-> st, label |-> None,
          predictor |-> None, prediction |-> NoPrediction,
          tag |-> BaseDataFinalize(obj)]

\* AttributeForm that takes the first element whatever the length.
AttributeFormFirst(input_array) ==
    IF input_array.type = "list1d"
    THEN [err |-> ErrNotIterable, prediction |-> NoPrediction]
    ELSE IF Len(input_array.row) >= 1
    THEN [err |-> Ok, prediction |-> Scalar("float", input_array.row[1])]
    ELSE [err |-> Ok, prediction |-> [type |-> "list", val |-> input_array.row]]

\* Lines 125-130: the prediction attribute read off input_array[0].  The
\* first element of a flat list is a number, which list() cannot iterate.
AttributeForm(input_array) ==
    IF input_array.type = "list1d"
    THEN [err |-> ErrNotIterable, prediction |-> NoPrediction]
    ELSE IF Len(input_array.row) = 1
    THEN [err |-> Ok, prediction |-> Scalar("float", input_array.row[1])]
    ELSE [err |-> Ok, prediction |-> [type |-> "list", val |-> input_array.row]]

Failure(e, w) == [err |-> e, warned |-> w, obj |-> NoObj]

\* Lines 81-136.  py3 tells which Python runs the comparison of line 110.
New(input_array, label, prediction, predictor, tag, py3) ==
    LET p == Prepare(input_array, prediction)
    IN  IF p.err # Ok THEN Failure(p.err, p.warned)
        ELSE
        LET s == Sanitize(p.input_array, p.prediction, py3)
        IN  IF s.err # Ok THEN Failure(s.err, p.warned)
            ELSE
            LET st == BaseDataNew(s.input_array)
                obj == ArrayFinalize(st, BareArray(st))
                a == IF s.prediction = NoPrediction
                     THEN AttributeForm(s.input_array)
                     ELSE [err |-> Ok, prediction |-> s.prediction]
            IN  IF a.err # Ok THEN Failure(a.err, p.warned)
                ELSE [err |-> Ok, warned |-> p.warned,
                      obj |-> [obj EXCEPT !.label = label,
                                          !.predictor = predictor,
                                          !.prediction = a.prediction,
                                          !.tag = IF tag # None THEN tag ELSE @]]

\* ------------------------------------------------------------------------
\* __reduce__, __setstate__, __eq__

\* base.BaseData.__reduce__ (line 167): ndarray's reduce with the state made
\* a list [nd_state, base_state]: the array's content and BaseData's own
\* attributes.
BaseDataReduce(self) == <<self.storage, self.tag>>

\* base.BaseData.__setstate__ (line 175): restores content and tag.
BaseDataSetState(self, st) == [self EXCEPT !.storage = st[1], !.tag = st[2]]

\* Lines 162-171: the state tuple (nd_state, base_state, own_state).
Reduce(self) ==
    Append(BaseDataReduce(self), <<self.label, self.predictor, self.prediction>>)

\* Lines 173-177.
SetState(self, st) ==
    LET nd_state == st[1]
        base_state == st[2]
        own_state == st[3]
    IN  [BaseDataSetState(self, <<nd_state, base_state>>)
            EXCEPT !.label = own_state[1], !.predictor = own_state[2],
                   !.prediction = own_state[3]]

Abs(n) == IF n < 0 THEN -n ELSE n

\* numpy.isclose on one pair (line 185): |x - y| <= atol + rtol * |y| for two
\* finite numbers, x == y otherwise.  On integers the tolerance test is
\* |x - y| <= |y| \div RtolInv, atol being below one unit of rtol * |y|.
IsClose(x, y) ==
    IF IsFinite(x) /\ IsFinite(y)
    THEN Abs(x.v - y.v) <= Abs(y.v) \div RtolInv
    ELSE x.k = "inf" /\ y.k = "inf" /\ x.v = y.v

\* numpy.allclose(a, b) on two prediction attributes (line 185): "True",
\* "False" or the exception raised.  A scalar or a one-element sequence is
\* broadcast against the other operand.
AllClose(a, b) ==
    IF a.type \in {"None", "other"} \/ b.type \in {"None", "other"}
    THEN "TypeError"
    ELSE LET la == Len(a.val)
             lb == Len(b.val)
             n == IF la = 1 THEN lb ELSE la
             at(s, i) == IF Len(s) = 1 THEN s[1] ELSE s[i]
         IN  IF la # lb /\ la # 1 /\ lb # 1
             THEN "ValueError"
             ELSE IF \A i \in 1..n : IsClose(at(a.val, i), at(b.val, i))
             THEN "True" ELSE "False"

\* Lines 179-185.
Eq(self, other) ==
    IF other.cls # self.cls THEN "False"
    ELSE IF self.label # other.label THEN "False"
    ELSE AllClose(self.prediction, other.prediction)

\* ------------------------------------------------------------------------
\* State

VARIABLES
    pc,      \* "idle", "built", "failed", "derived", "pickled", "restored",
             \* "left", "pair", "compared"
    args,    \* the arguments of the last call of the constructor
    res,     \* its outcome: err, warned and the instance obj
    d,       \* an instance derived from res.obj
    how,     \* the derivation that made d
    state,   \* the pickled state of res.obj
    r,       \* the instance restored from state
    b,       \* a second constructed instance
    eqs      \* the outcomes of res.obj == b, b == res.obj, res.obj == res.obj

vars == <<pc, args, res, d, how, state, r, b, eqs>>

NoArgs == [input_array |-> NoArray, label |-> None, prediction |-> NoPrediction,
           predictor |-> None, tag |-> None, py3 |-> FALSE]
NoHow == [op |-> "none", src |-> "none"]
NoEqs == [ab |-> "none", ba |-> "none", aa |-> "none"]

Init ==
    /\ pc = "idle"
    /\ args = NoArgs
    /\ res = [err |-> Ok, warned |-> FALSE, obj |-> NoObj]
    /\ d = NoObj
    /\ how = NoHow
    /\ state = Reduce(NoObj)
    /\ r = NoObj
    /\ b = NoObj
    /\ eqs = NoEqs

\* A prediction of an unexpected type (a str) comes without input_array.
AllArgs ==
    {a \in [input_array : InputArrays, label : Labels, prediction : Predictions,
            predictor : Predictors, tag : Tags, py3 : BOOLEAN] :
        a.prediction.type = "other" => a.input_array = NoArray}

Call(a) == New(a.input_array, a.label, a.prediction, a.predictor, a.tag, a.py3)

\* PredictionVector(input_array, label, prediction, predictor, tag)
Construct ==
    /\ pc = "idle"
    /\ \E a \in AllArgs :
        /\ args' = a
        /\ res' = Call(a)
        /\ pc' = IF Call(a).err = Ok THEN "built" ELSE "failed"
    /\ UNCHANGED <<d, how, state, r, b, eqs>>

\* numpy derives an instance from the constructed one: a view, a column
\* slice self[:, i:j], the row self[0] or the arithmetic result -self; or it
\* views the bare array numpy.asarray(self) as a PredictionVector; or it
\* allocates an empty instance from no source at all, as
\* numpy.ndarray.__new__(PredictionVector, (0,)) does.  Each calls
\* __array_finalize__ on the new instance with the source.
Derive ==
    /\ pc = "built"
    /\ LET st == res.obj.storage
           n == Len(st.row)
       IN  \E op \in {"view", "slice", "row", "neg", "empty"},
              src \in {"self", "ndarray", "none"},
              i \in 1..MaxLen, j \in 1..MaxLen :
            LET nst == IF op = "slice" THEN Storage(2, SubSeq(st.row, i, j))
                       ELSE IF op = "row" THEN Storage(1, st.row)
                       ELSE IF op = "neg"
                       THEN Storage(2, [k \in 1..n |-> Fin(-(st.row[k].v))])
                       ELSE IF op = "empty" THEN Storage(1, << >>)
                       ELSE st
                source == IF src = "self" THEN res.obj
                          ELSE IF src = "ndarray" THEN BareArray(st)
                          ELSE NoObj
            IN  /\ IF op = "slice" THEN i <= j /\ j <= n ELSE i = 1 /\ j = 1
                /\ (op = "empty") <=> (src = "none")
                /\ d' = ArrayFinalize(nst, source)
                /\ how' = [op |-> op, src |-> src]
    /\ pc' = "derived"
    /\ UNCHANGED <<args, res, state, r, b, eqs>>

\* pickle.dumps: __reduce__ of the constructed instance.
Pickle ==
    /\ pc = "built"
    /\ state' = Reduce(res.obj)
    /\ pc' = "pickled"
    /\ UNCHANGED <<args, res, d, how, r, b, eqs>>

\* pickle.loads: numpy reconstructs an empty instance (__array_finalize__
\* with no source), then __setstate__ fills it.
Unpickle ==
    /\ pc = "pickled"
    /\ r' = SetState(ArrayFinalize(Storage(1, << >>), NoObj), state)
    /\ pc' = "restored"
    /\ UNCHANGED <<args, res, d, how, state, b, eqs>>

Next == Construct \/ Derive \/ Pickle \/ Unpickle

Spec == Init /\ [][Next]_vars

\* ------------------------------------------------------------------------
\* Two instances and their comparison

EqArgs ==
    {a \in AllArgs :
        /\ a.input_array = NoArray
        /\ a.prediction.type \in {"float", "list"}
        /\ a.predictor = None /\ a.tag = None /\ a.py3 = FALSE}

ConstructLeft ==
    /\ pc = "idle"
    /\ \E a \in EqArgs :
        /\ args' = a
        /\ res' = Call(a)
    /\ pc' = "left"
    /\ UNCHANGED <<d, how, state, r, b, eqs>>

ConstructRight ==
    /\ pc = "left"
    /\ \E a \in EqArgs : b' = Call(a).obj
    /\ pc' = "pair"
    /\ UNCHANGED <<args, res, d, how, state, r, eqs>>

Compare ==
    /\ pc = "pair"
    /\ eqs' = [ab |-> Eq(res.obj, b), ba |-> Eq(b, res.obj),
               aa |-> Eq(res.obj, res.obj)]
    /\ pc' = "compared"
    /\ UNCHANGED <<args, res, d, how, state, r, b>>

NextEq == ConstructLeft \/ ConstructRight \/ Compare

SpecEq == Init /\ [][NextEq]_vars

\* ------------------------------------------------------------------------
\* Properties

Called == pc \in {"built", "failed"}
IsScalar(p) == p.type \in {"float", "float64", "int", "other"}
IsSequence(p) == p.type \in {"list", "ndarray"}
Zeros(n) == [i \in 1..n |-> Fin(0)]

\* The array line 107 tests: input_array, or the one made from prediction.
Tested(a) ==
    IF a.input_array # NoArray THEN a.input_array.row ELSE a.prediction.val

\* C1: after every construction that returns an instance, whatever
\* input_array and prediction were, every entry of the numeric storage is
\* finite.
C1_StorageFinite ==
    pc = "built" => AllFinite(res.obj.storage.row)

C1_Witness ==
    /\ pc = "built"
    /\ args.input_array # NoArray /\ ~AllFinite(args.input_array.row)
    /\ args.prediction.type = "list" /\ ~AllFinite(args.prediction.val)

\* C2: construction with input_array and prediction both absent raises the
\* error of line 92 and returns no instance, whatever label, predictor and
\* tag are; a construction that supplies one of the two never raises it.
C2_NeitherIsError ==
    Called =>
        /\ (args.input_array = NoArray /\ args.prediction = NoPrediction)
              => (pc = "failed" /\ res.err = ErrNoPrediction /\ res.obj = NoObj)
        /\ res.err = ErrNoPrediction
              => (args.input_array = NoArray /\ args.prediction = NoPrediction)

C2_Witness ==
    /\ pc = "failed" /\ res.err = ErrNoPrediction
    /\ args.label # None /\ args.predictor # None /\ args.tag # None

\* The storage of x has shape (1, k), k >= 1, and x.prediction mirrors it.
Mirrors(x) ==
    /\ x.storage.ndim = 2
    /\ Len(x.storage.row) >= 1
    /\ IsScalar(x.prediction) \/ IsSequence(x.prediction)
    /\ IsScalar(x.prediction) =>
          /\ Len(x.storage.row) = 1
          /\ x.prediction.val[1] = x.storage.row[1]
    /\ IsSequence(x.prediction) => x.prediction.val = x.storage.row

SentinelOf(x) == IF x = PosInf THEN Fin(Sentinel) ELSE Fin(-Sentinel)

NonFiniteFloat(p) ==
    p.type \in {"float", "float64"} /\ ~IsFinite(p.val[1])

\* C4 as stated: whenever a single-value prediction is non-finite, the
\* storage is the 1x1 sentinel with the sign of the prediction.
C4_Original ==
    (pc = "built" /\ NonFiniteFloat(args.prediction))
    => res.obj.storage = Storage(2, <<SentinelOf(args.prediction.val[1])>>)

\* C4 amended: when a single-value prediction is non-finite and input_array
\* is absent or itself holds a non-finite entry, the storage is the 1x1
\* sentinel with the sign of the prediction: 1e9 for +inf, -1e9 for -inf
\* and for NaN.
C4_Amended ==
    (/\ pc = "built"
     /\ NonFiniteFloat(args.prediction)
     /\ ~AllFinite(Tested(args)))
    => res.obj.storage = Storage(2, <<SentinelOf(args.prediction.val[1])>>)

C4_Witness ==
    /\ pc = "built"
    /\ args.input_array = NoArray
    /\ args.prediction = Scalar("float", NaN)
    /\ res.obj.storage = Storage(2, <<Fin(-Sentinel)>>)

\* C5 as stated: whenever a list prediction of length k has a non-finite
\* element, the storage is one row of k zeros.
C5_Original ==
    (/\ pc = "built"
     /\ args.prediction.type = "list"
     /\ ~AllFinite(args.prediction.val))
    => res.obj.storage = Storage(2, Zeros(Len(args.prediction.val)))

\* C5 amended: when prediction is a list of length k and the array under
\* test (input_array, or the row made from prediction when input_array is
\* absent) has a non-finite entry, the storage is one row of k zeros.
C5_Amended ==
    (/\ pc = "built"
     /\ args.prediction.type = "list"
     /\ ~AllFinite(Tested(args)))
    => res.obj.storage = Storage(2, Zeros(Len(args.prediction.val)))

C5_Witness ==
    /\ pc = "built"
    /\ args.input_array = NoArray
    /\ args.prediction = [type |-> "list", val |-> <<NaN, Fin(1)>>]
    /\ res.obj.storage = Storage(2, <<Fin(0), Fin(0)>>)

\* C6 as stated: a supplied prediction is the instance's prediction
\* attribute, value for value, also when it is non-finite and the storage
\* was sanitised.
C6_Original ==
    (pc = "built" /\ args.prediction # NoPrediction)
    => res.obj.prediction.val = args.prediction.val

\* C6 amended: a supplied list prediction is the attribute verbatim, also
\* when the storage was zeroed; any other supplied prediction is the
\* attribute, value for value, when the array under test is finite, and is
\* replaced by the sentinel stored in the array (10**9 or -10**9) when it is
\* not.
C6_Amended ==
    (pc = "built" /\ args.prediction # NoPrediction)
    => IF args.prediction.type = "list"
       THEN res.obj.prediction = args.prediction
       ELSE IF AllFinite(Tested(args))
       THEN res.obj.prediction.val = args.prediction.val
       ELSE /\ res.obj.prediction \in
                  {Scalar("int", Fin(Sentinel)), Scalar("int", Fin(-Sentinel))}
            /\ res.obj.storage.row = res.obj.prediction.val

C6_Witness ==
    /\ pc = "built"
    /\ args.prediction.type = "list" /\ ~AllFinite(args.prediction.val)
    /\ res.obj.storage.row = Zeros(Len(args.prediction.val))
    /\ res.obj.prediction = args.prediction

\* C7: an instance derived from a PredictionVector has the label, predictor
\* and prediction of its source; one derived from a bare ndarray or from no
\* source has all three absent; a constructed instance carries the label and
\* predictor the constructor assigned after the hook ran, and a prediction.
C7_Propagation ==
    /\ (pc = "derived" /\ how.src = "self") =>
          /\ d.label = res.obj.label
          /\ d.predictor = res.obj.predictor
          /\ d.prediction = res.obj.prediction
    /\ (pc = "derived" /\ how.src \in {"ndarray", "none"}) =>
          /\ d.label = None
          /\ d.predictor = None
          /\ d.prediction = NoPrediction
    /\ pc = "built" =>
          /\ res.obj.label = args.label
          /\ res.obj.predictor = args.predictor
          /\ res.obj.prediction # NoPrediction

C7_Witness ==
    /\ pc = "derived" /\ how = [op |-> "slice", src |-> "self"]
    /\ d.label = "Target" /\ d.predictor = "node"
    /\ d.prediction.type = "list"

\* C8: an instance restored from the pickled state of a constructed one is
\* equal to it under __eq__, has its label, predictor and prediction, and
\* the same storage content.
C8_RoundTrip ==
    pc = "restored" =>
        /\ Eq(r, res.obj) = "True"
        /\ r.label = res.obj.label
        /\ r.predictor = res.obj.predictor
        /\ r.prediction = res.obj.prediction
        /\ r.storage = res.obj.storage

\* C9: a == a holds for every constructed instance, and a == b holds
\* exactly when b == a does.
C9_ReflexiveSymmetric ==
    pc = "compared" =>
        /\ eqs.aa = "True"
        /\ (eqs.ab = "True") <=> (eqs.ba = "True")

\* C10: a construction that supplies input_array or prediction never fails.
C10_NeverFails ==
    (Called /\ (args.input_array # NoArray \/ args.prediction # NoPrediction))
    => res.err = Ok

====
